---- MODULE Spec2Model ----
(***************************************************************************)
(* Real-time location broadcast of the GPS tracking backend.               *)
(*                                                                         *)
(* The state is the DynamoDB table WebSocketConnections-<stage> (the       *)
(* connection registry), the relational Tracking/Device records written    *)
(* by the ingestion handler, the payloads the API Gateway handed to each   *)
(* connection, and the position of every invocation of the ingestion       *)
(* handler (track-device.ts), whose broadcastLocationUpdate fans a fix     *)
(* out to the connections of a device code.                                *)
(*                                                                         *)
(* The WebSocket route handlers ($connect, $disconnect, join-room,         *)
(* $default) each issue at most one DynamoDB request: one action each.     *)
(* An invocation of the ingestion handler awaits several requests, and     *)
(* other invocations and route handlers run between them: one action per   *)
(* awaited request.  A DynamoDB request either succeeds or throws (store   *)
(* unreachable, throttled): the choice is an input of the action.  The     *)
(* query on DeviceCodeIndex is read as reflecting the committed items of   *)
(* the table (the index definition is deployment configuration).           *)
(*                                                                         *)
(* Spec is the whole system at one instant of the clock, invocations of    *)
(* the ingestion handler running one after the other.  SpecRoutes is the   *)
(* route handlers alone, with the response of each recorded in wsResp,     *)
(* the clock advancing and DynamoDB's time-to-live sweep.  life and        *)
(* joinedEver are history variables: no handler reads them.                *)
(***************************************************************************)
EXTENDS Integers, Sequences, FiniteSets, TLC

\* ---------------------------------------------------------------- bounds
\* Invocations of the ingestion handler.
MaxCalls == 1
\* Number of times the wall clock advances.
MaxTicks == 1

\* ------------------------------------------------------------- constants
\* TTL horizon in seconds (join-room and $connect: "+ 86400").
TtlSeconds == 86400
\* One advance of the wall clock, in milliseconds (longer than the TTL).
TickMs == 90000000

ConnIds == {"c1", "c2"}
\* Device codes with a Device row in the relational store.
Devices == {"DEV1", "DEV2"}
\* A device code without a Device row.
UnknownDevice == "DEV9"
Sims == {"S1"}
Calls == 1..MaxCalls

\* JavaScript undefined / a missing property.
Undefined == "undefined"

VARIABLES
    table,      \* WebSocketConnections: connectionId -> item (absent ids are not in the domain)
    now,        \* Date.now(), milliseconds
    track,      \* per invocation of the ingestion handler: its position and locals
    tracking,   \* rows of the Tracking table
    deviceSim,  \* Device.iotSimNumber per device code
    inbox,      \* per connection: the payloads the gateway accepted for it, in order
    wsResp,     \* the response the last WebSocket route handler returned, where observed
    life,       \* per connection: the last registry write that succeeded for it:
                \* "none", "connected", the device code joined, or "gone" (deleted)
    joinedEver  \* the connections for which a join-room update ever succeeded

vars == <<table, now, track, tracking, deviceSim, inbox, wsResp, life, joinedEver>>

\* ------------------------------------------------------------ DynamoDB
\* Mutant: put that merges into the stored item instead of replacing it.
PutItem_Merge(t, id, item) ==
    LET old == IF id \in DOMAIN t THEN t[id] ELSE [connectionId |-> id]
    IN  [x \in DOMAIN t \cup {id} |-> IF x = id THEN item @@ old ELSE t[x]]

\* DocumentClient.put: the item replaces whatever was stored under the key.
PutItem(t, id, item) ==
    [x \in DOMAIN t \cup {id} |-> IF x = id THEN item ELSE t[x]]

\* Mutant: SET that keeps an attribute the item already has (if_not_exists).
UpdateItem_KeepExisting(t, id, attrs) ==
    LET old == IF id \in DOMAIN t THEN t[id] ELSE [connectionId |-> id]
    IN  [x \in DOMAIN t \cup {id} |-> IF x = id THEN old @@ attrs ELSE t[x]]

\* DocumentClient.update with a SET expression and no ConditionExpression:
\* the attributes are set on the item of that key; an item that does not
\* exist is created with the key and the set attributes.
UpdateItem(t, id, attrs) ==
    LET old == IF id \in DOMAIN t THEN t[id] ELSE [connectionId |-> id]
    IN  [x \in DOMAIN t \cup {id} |-> IF x = id THEN attrs @@ old ELSE t[x]]

\* Mutant: the delete addresses no item (wrong key).
DeleteItem_WrongKey(t, id) == t

\* DocumentClient.delete: removes the item; succeeds when there is none.
DeleteItem(t, id) ==
    [x \in DOMAIN t \ {id} |-> t[x]]

\* Mutant: the query returns one item only (Limit 1).
QueryByDeviceCode_FirstOnly(t, deviceCode) ==
    LET all == {id \in DOMAIN t : "deviceCode" \in DOMAIN t[id] /\ t[id].deviceCode = deviceCode}
    IN  IF all = {} THEN {} ELSE {CHOOSE id \in all : TRUE}

\* Mutant: a scan that forgets the filter on deviceCode.
QueryByDeviceCode_NoFilter(t, deviceCode) == DOMAIN t

\* Mutant: the filter matches every item that has joined some room.
QueryByDeviceCode_AnyRoom(t, deviceCode) ==
    {id \in DOMAIN t : "deviceCode" \in DOMAIN t[id]}

\* DocumentClient.query on DeviceCodeIndex, deviceCode = :deviceCode.
QueryByDeviceCode(t, deviceCode) ==
    {id \in DOMAIN t : "deviceCode" \in DOMAIN t[id] /\ t[id].deviceCode = deviceCode}

\* Math.floor(timestamp / 1000) + 86400
Ttl(timestamp) == (timestamp \div 1000) + TtlSeconds

\* ------------------------------------------------------------- shared/utils
\* Mutant: a check for undefined only (deviceCode === undefined).
Falsy_UndefinedOnly(v) == v = Undefined

\* JavaScript truthiness of a string-or-undefined value: !v
Falsy(v) == v = Undefined \/ v = ""

\* The request bodies a client can send, as text.  "null" is no body at
\* all, "garbage" is text that is not JSON; the others are JSON objects.
JoinBodies ==
    {[kind |-> "null"], [kind |-> "garbage"], [kind |-> "json", obj |-> [action |-> "join-room"]]}
    \cup {[kind |-> "json", obj |-> [action |-> "join-room", deviceCode |-> d]] : d \in Devices \cup {""}}

\* parseBody: {} for no body, JSON.parse otherwise; throws on invalid JSON.
ParseThrows(body) == body.kind = "garbage"
parseBody(body) == IF body.kind = "null" THEN [x \in {} |-> Undefined] ELSE body.obj

\* obj[field], undefined when the property is missing.
Prop(obj, field) == IF field \in DOMAIN obj THEN obj[field] ELSE Undefined

\* --------------------------------------------------------------- initial
IdleCall == [pc |-> "idle"]
NoResp == [route |-> "none", connectionId |-> "none", statusCode |-> 0, existed |-> FALSE]

Init ==
    /\ table = [x \in {} |-> [connectionId |-> x]]
    /\ now = 0
    /\ track = [k \in Calls |-> IdleCall]
    /\ tracking = {}
    /\ deviceSim = [d \in Devices |-> IF d = "DEV1" THEN "S1" ELSE "S0"]
    /\ inbox = [id \in ConnIds |-> <<>>]
    /\ wsResp = NoResp
    /\ life = [id \in ConnIds |-> "none"]
    /\ joinedEver = {}

\* ------------------------------------------------------ WebSocket routes
\* What the handler of a route returned for connection id: its statusCode,
\* with whether the table held an item for id when the handler ran.
Resp(route, id, status) ==
    [route |-> route, connectionId |-> id, statusCode |-> status,
     existed |-> id \in DOMAIN table]

\* The response reaches the client and nothing else; observed tells whether
\* the specification records it.
Observe(observed, resp) == IF observed THEN resp ELSE wsResp

\* $connect: put {connectionId, timestamp, ttl, status: 'connected'}.
ConnectItem(id, timestamp) ==
    [connectionId |-> id, timestamp |-> timestamp, ttl |-> Ttl(timestamp), status |-> "connected"]

Connect(id, storeOk, observed) ==
    /\ IF storeOk
       THEN /\ table' = PutItem(table, id, ConnectItem(id, now))
            /\ life' = [life EXCEPT ![id] = "connected"]
            /\ wsResp' = Observe(observed, Resp("connect", id, 200))
       ELSE /\ wsResp' = Observe(observed, Resp("connect", id, 500))
            /\ UNCHANGED <<table, life>>
    /\ UNCHANGED <<now, track, tracking, deviceSim, inbox, joinedEver>>

\* Mutant: the delete carries ConditionExpression attribute_exists(connectionId),
\* which throws when there is no item.
Disconnect_MustExist(id, storeOk, observed) ==
    /\ IF storeOk /\ id \in DOMAIN table
       THEN /\ table' = DeleteItem(table, id)
            /\ life' = [life EXCEPT ![id] = "gone"]
            /\ wsResp' = Observe(observed, Resp("disconnect", id, 200))
       ELSE /\ wsResp' = Observe(observed, Resp("disconnect", id, 500))
            /\ UNCHANGED <<table, life>>
    /\ UNCHANGED <<now, track, tracking, deviceSim, inbox, joinedEver>>

\* $disconnect: delete {connectionId}.
Disconnect(id, storeOk, observed) ==
    /\ IF storeOk
       THEN /\ table' = DeleteItem(table, id)
            /\ life' = [life EXCEPT ![id] = "gone"]
            /\ wsResp' = Observe(observed, Resp("disconnect", id, 200))
       ELSE /\ wsResp' = Observe(observed, Resp("disconnect", id, 500))
            /\ UNCHANGED <<table, life>>
    /\ UNCHANGED <<now, track, tracking, deviceSim, inbox, joinedEver>>

\* The attributes join-room sets.
JoinAttrs(deviceCode, timestamp) ==
    [deviceCode |-> deviceCode, joinedAt |-> timestamp, ttl |-> Ttl(timestamp)]

\* join-room: parse the body, reject a falsy deviceCode with 400, else update.
JoinRoom(id, body, storeOk, observed) ==
    /\ IF ParseThrows(body)
       THEN /\ wsResp' = Observe(observed, Resp("join-room", id, 500))
            /\ UNCHANGED <<table, life, joinedEver>>
       ELSE LET deviceCode == Prop(parseBody(body), "deviceCode") IN
            IF Falsy(deviceCode)
            THEN /\ wsResp' = Observe(observed, Resp("join-room", id, 400))
                 /\ UNCHANGED <<table, life, joinedEver>>
            ELSE IF storeOk
            THEN /\ table' = UpdateItem(table, id, JoinAttrs(deviceCode, now))
                 /\ life' = [life EXCEPT ![id] = deviceCode]
                 /\ joinedEver' = joinedEver \cup {id}
                 /\ wsResp' = Observe(observed, Resp("join-room", id, 200))
            ELSE /\ wsResp' = Observe(observed, Resp("join-room", id, 500))
                 /\ UNCHANGED <<table, life, joinedEver>>
    /\ UNCHANGED <<now, track, tracking, deviceSim, inbox>>

\* Mutant: the default route refreshes the ttl of the sender's item (a keep-alive).
Default_RefreshTtl(id, observed) ==
    /\ wsResp' = Observe(observed, Resp("default", id, 200))
    /\ table' = UpdateItem(table, id, [ttl |-> Ttl(now) + 1])
    /\ UNCHANGED <<now, track, tracking, deviceSim, inbox, life, joinedEver>>

\* $default: acknowledge, touch nothing.
Default(id, observed) ==
    /\ wsResp' = Observe(observed, Resp("default", id, 200))
    /\ UNCHANGED <<table, now, track, tracking, deviceSim, inbox, life, joinedEver>>

\* ------------------------------------------------------ ingestion handler
\* The bodies a device can post: no body, text that is not JSON, or a JSON
\* object with some of lat, long and the optional speed.
TrackBodies ==
    {[kind |-> "null"], [kind |-> "garbage"],
     [kind |-> "json", obj |-> [lat |-> "12.9"]],
     [kind |-> "json", obj |-> [lat |-> "12.9", long |-> "77.6"]]}

\* Mutant: only lat is required.
validateRequiredFields_LatOnly(body) ==
    IF Falsy(Prop(body, "lat")) THEN "lat" ELSE "none"

\* validateRequiredFields(body, ['lat', 'long']): the first falsy field, or none.
validateRequiredFields(body) ==
    IF Falsy(Prop(body, "lat")) THEN "lat"
    ELSE IF Falsy(Prop(body, "long")) THEN "long"
    ELSE "none"

\* Date.prototype.toISOString of the instant `ms`.
ToISOString(ms) == <<"iso8601", ms>>

\* The locationData object the handler passes to broadcastLocationUpdate.
LocationData(body, trackedAt) ==
    [lat |-> Prop(body, "lat"), long |-> Prop(body, "long"),
     speed |-> Prop(body, "speed"), trackedAt |-> ToISOString(trackedAt)]

\* JSON.stringify of an object of strings: a property whose value is
\* undefined is left out of the text.
Stringify(obj) ==
    [f \in {g \in DOMAIN obj : obj[g] # Undefined} |-> obj[f]]

\* message = JSON.stringify({type, deviceCode, iotSimNumber, data}).
LocationUpdate(deviceCode, iotSimNumber, locationData) ==
    [type |-> "location-update", deviceCode |-> deviceCode,
     iotSimNumber |-> iotSimNumber, data |-> Stringify(locationData)]

\* What broadcastLocationUpdate did for its log lines: how many connections
\* the query returned, how many posts the gateway accepted, how many items
\* were deleted after a 410.
Report(tasks) ==
    [attempted |-> Cardinality(DOMAIN tasks),
     delivered |-> Cardinality({id \in DOMAIN tasks : tasks[id] = "sent"}),
     evicted |-> Cardinality({id \in DOMAIN tasks : tasks[id] = "evicted"})]

NoTasks == [id \in {} |-> "posting"]

\* A finished invocation: the response's statusCode, how the broadcast
\* ended ("unreached", "unconfigured", "failed", "empty", "done") and its report.
Done(status, broadcast, tasks) ==
    [pc |-> "done", statusCode |-> status, broadcast |-> broadcast, report |-> Report(tasks)]

\* Mutant: a second invocation may start while the first is still running,
\* whatever the caller asked for.
MayStart_Overlapping(k, overlap) ==
    /\ track[k].pc = "idle"
    /\ IF k = 1 THEN TRUE ELSE track[k - 1].pc # "idle"

\* Invocations are interchangeable: number them in the order they start.
\* overlap tells whether an invocation may start while another is running.
MayStart(k, overlap) ==
    /\ track[k].pc = "idle"
    /\ IF k = 1 THEN TRUE
       ELSE IF overlap THEN track[k - 1].pc # "idle" ELSE track[k - 1].pc = "done"

\* Mutant: the broadcast is started even when prisma.tracking.create throws.
TrackDevice_BroadcastAnyway(k, code, iotSimNumber, body, dbFail, endpoint, overlap) ==
    /\ MayStart(k, overlap)
    /\ ~Falsy(code) /\ ~Falsy(iotSimNumber)
    /\ ~ParseThrows(body)
    /\ validateRequiredFields(parseBody(body)) = "none"
    /\ dbFail \in {"none", "create"}
    /\ code \in Devices
    /\ deviceSim' = [deviceSim EXCEPT ![code] = iotSimNumber]
    /\ tracking' = IF dbFail = "create" THEN tracking
                   ELSE tracking \cup {[call |-> k, deviceCode |-> code, trackedAt |-> now]}
    /\ track' = [track EXCEPT ![k] =
                   IF endpoint
                   THEN [pc |-> "query", deviceCode |-> code, iotSimNumber |-> iotSimNumber,
                         locationData |-> LocationData(parseBody(body), now)]
                   ELSE Done(IF dbFail = "create" THEN 500 ELSE 200, "unconfigured", NoTasks)]
    /\ UNCHANGED <<table, now, inbox, wsResp, life, joinedEver>>

\* The handler up to the broadcast: path parameters, body, device lookup,
\* SIM update, prisma.tracking.create.  dbFail names the prisma request
\* that throws, endpoint tells whether WEBSOCKET_ENDPOINT is set.
TrackDevice(k, code, iotSimNumber, body, dbFail, endpoint, overlap) ==
    /\ MayStart(k, overlap)
    /\ IF Falsy(code) \/ Falsy(iotSimNumber)
       THEN /\ track' = [track EXCEPT ![k] = Done(400, "unreached", NoTasks)]
            /\ UNCHANGED <<tracking, deviceSim>>
       ELSE IF ParseThrows(body)
       THEN /\ track' = [track EXCEPT ![k] = Done(500, "unreached", NoTasks)]
            /\ UNCHANGED <<tracking, deviceSim>>
       ELSE IF validateRequiredFields(parseBody(body)) # "none"
       THEN /\ track' = [track EXCEPT ![k] = Done(400, "unreached", NoTasks)]
            /\ UNCHANGED <<tracking, deviceSim>>
       ELSE IF dbFail = "findUnique"
       THEN /\ track' = [track EXCEPT ![k] = Done(500, "unreached", NoTasks)]
            /\ UNCHANGED <<tracking, deviceSim>>
       ELSE IF code \notin Devices
       THEN /\ track' = [track EXCEPT ![k] = Done(404, "unreached", NoTasks)]
            /\ UNCHANGED <<tracking, deviceSim>>
       ELSE IF deviceSim[code] # iotSimNumber /\ dbFail = "update"
       THEN /\ track' = [track EXCEPT ![k] = Done(500, "unreached", NoTasks)]
            /\ UNCHANGED <<tracking, deviceSim>>
       ELSE /\ deviceSim' = [deviceSim EXCEPT ![code] = iotSimNumber]
            /\ IF dbFail = "create"
               THEN /\ track' = [track EXCEPT ![k] = Done(500, "unreached", NoTasks)]
                    /\ UNCHANGED tracking
               ELSE /\ tracking' = tracking \cup
                        {[call |-> k, deviceCode |-> code, trackedAt |-> now]}
                    /\ IF endpoint
                       THEN track' = [track EXCEPT ![k] =
                              [pc |-> "query", deviceCode |-> code,
                               iotSimNumber |-> iotSimNumber,
                               locationData |-> LocationData(parseBody(body), now)]]
                       ELSE track' = [track EXCEPT ![k] = Done(200, "unconfigured", NoTasks)]
    /\ UNCHANGED <<table, now, inbox, wsResp, life, joinedEver>>

\* Mutant: a throw of the query escapes to the handler's catch, which answers 500.
BroadcastQuery_Rethrow(k, storeOk) ==
    /\ track[k].pc = "query"
    /\ IF ~storeOk
       THEN track' = [track EXCEPT ![k] = Done(500, "failed", NoTasks)]
       ELSE LET items == QueryByDeviceCode(table, track[k].deviceCode) IN
            IF items = {}
            THEN track' = [track EXCEPT ![k] = Done(200, "empty", NoTasks)]
            ELSE track' = [track EXCEPT ![k] =
                        [pc |-> "push", deviceCode |-> track[k].deviceCode,
                         message |-> LocationUpdate(track[k].deviceCode,
                                       track[k].iotSimNumber, track[k].locationData),
                         tasks |-> [id \in items |-> "posting"]]]
    /\ UNCHANGED <<table, now, tracking, deviceSim, inbox, wsResp, life, joinedEver>>

\* broadcastLocationUpdate, the query: a throw is caught by the function's
\* own try/catch and the handler answers 200; no items: return; otherwise
\* serialize once and start one postToConnection per item.
BroadcastQuery(k, storeOk) ==
    /\ track[k].pc = "query"
    /\ IF ~storeOk
       THEN track' = [track EXCEPT ![k] = Done(200, "failed", NoTasks)]
       ELSE LET items == QueryByDeviceCode(table, track[k].deviceCode) IN
            IF items = {}
            THEN track' = [track EXCEPT ![k] = Done(200, "empty", NoTasks)]
            ELSE track' = [track EXCEPT ![k] =
                        [pc |-> "push", deviceCode |-> track[k].deviceCode,
                         message |-> LocationUpdate(track[k].deviceCode,
                                       track[k].iotSimNumber, track[k].locationData),
                         tasks |-> [id \in items |-> "posting"]]]
    /\ UNCHANGED <<table, now, tracking, deviceSim, inbox, wsResp, life, joinedEver>>

\* The gateway's answers to postToConnection: accepted, 410 Gone, or any
\* other failure (throttled, timed out, 5xx).
PostOutcomes == {"ok", "gone", "error"}

\* Mutant: an accepted post is sent a second time (a retry after success).
PostToConnection_Twice(k, id, outcome) ==
    /\ track[k].pc = "push"
    /\ id \in DOMAIN track[k].tasks
    /\ track[k].tasks[id] = "posting"
    /\ IF outcome = "ok"
       THEN /\ inbox' = [inbox EXCEPT ![id] =
                   Append(Append(@, [call |-> k, message |-> track[k].message]),
                          [call |-> k, message |-> track[k].message])]
            /\ track' = [track EXCEPT ![k].tasks[id] = "sent"]
       ELSE /\ track' = [track EXCEPT ![k].tasks[id] =
                   IF outcome = "gone" THEN "deleting" ELSE "failed"]
            /\ UNCHANGED inbox
    /\ UNCHANGED <<table, now, tracking, deviceSim, wsResp, life, joinedEver>>

\* Mutant: the posts are awaited one after the other (a for-await loop):
\* the post to c2 is sent only when the post to c1 has settled.
PostToConnection_InOrder(k, id, outcome) ==
    /\ track[k].pc = "push"
    /\ id \in DOMAIN track[k].tasks
    /\ track[k].tasks[id] = "posting"
    /\ IF id = "c1" THEN TRUE
       ELSE IF "c1" \in DOMAIN track[k].tasks
       THEN track[k].tasks["c1"] \in {"sent", "failed", "evicted", "evictFailed"}
       ELSE TRUE
    /\ IF outcome = "ok"
       THEN /\ inbox' = [inbox EXCEPT ![id] =
                   Append(@, [call |-> k, message |-> track[k].message])]
            /\ track' = [track EXCEPT ![k].tasks[id] = "sent"]
       ELSE /\ track' = [track EXCEPT ![k].tasks[id] =
                   IF outcome = "gone" THEN "deleting" ELSE "failed"]
            /\ UNCHANGED inbox
    /\ UNCHANGED <<table, now, tracking, deviceSim, wsResp, life, joinedEver>>

\* Mutant: every failed post, not only a 410, goes on to delete the item.
PostToConnection_EvictOnAnyError(k, id, outcome) ==
    /\ track[k].pc = "push"
    /\ id \in DOMAIN track[k].tasks
    /\ track[k].tasks[id] = "posting"
    /\ IF outcome = "ok"
       THEN /\ inbox' = [inbox EXCEPT ![id] =
                   Append(@, [call |-> k, message |-> track[k].message])]
            /\ track' = [track EXCEPT ![k].tasks[id] = "sent"]
       ELSE /\ track' = [track EXCEPT ![k].tasks[id] = "deleting"]
            /\ UNCHANGED inbox
    /\ UNCHANGED <<table, now, tracking, deviceSim, wsResp, life, joinedEver>>

\* Mutant: an accepted post writes the room back into the item of the
\* connection it read at query time (a read-modify-write of the snapshot).
PostToConnection_WritesBack(k, id, outcome) ==
    /\ track[k].pc = "push"
    /\ id \in DOMAIN track[k].tasks
    /\ track[k].tasks[id] = "posting"
    /\ IF outcome = "ok"
       THEN /\ inbox' = [inbox EXCEPT ![id] =
                   Append(@, [call |-> k, message |-> track[k].message])]
            /\ track' = [track EXCEPT ![k].tasks[id] = "sent"]
            /\ table' = UpdateItem(table, id, [deviceCode |-> track[k].deviceCode])
       ELSE /\ track' = [track EXCEPT ![k].tasks[id] =
                   IF outcome = "gone" THEN "deleting" ELSE "failed"]
            /\ UNCHANGED <<inbox, table>>
    /\ UNCHANGED <<now, tracking, deviceSim, wsResp, life, joinedEver>>

\* Mutant: each recipient's payload carries its own connection id.
PostToConnection_Personalised(k, id, outcome) ==
    /\ track[k].pc = "push"
    /\ id \in DOMAIN track[k].tasks
    /\ track[k].tasks[id] = "posting"
    /\ IF outcome = "ok"
       THEN /\ inbox' = [inbox EXCEPT ![id] =
                   Append(@, [call |-> k, message |-> [connectionId |-> id] @@ track[k].message])]
            /\ track' = [track EXCEPT ![k].tasks[id] = "sent"]
       ELSE /\ track' = [track EXCEPT ![k].tasks[id] =
                   IF outcome = "gone" THEN "deleting" ELSE "failed"]
            /\ UNCHANGED inbox
    /\ UNCHANGED <<table, now, tracking, deviceSim, wsResp, life, joinedEver>>

\* Mutant: before each post the publish reads the item again and skips a
\* connection that is no longer joined to the room.
PostToConnection_RecheckMembership(k, id, outcome) ==
    /\ track[k].pc = "push"
    /\ id \in DOMAIN track[k].tasks
    /\ track[k].tasks[id] = "posting"
    /\ IF id \in QueryByDeviceCode(table, track[k].deviceCode)
       THEN IF outcome = "ok"
            THEN /\ inbox' = [inbox EXCEPT ![id] =
                        Append(@, [call |-> k, message |-> track[k].message])]
                 /\ track' = [track EXCEPT ![k].tasks[id] = "sent"]
            ELSE /\ track' = [track EXCEPT ![k].tasks[id] =
                        IF outcome = "gone" THEN "deleting" ELSE "failed"]
                 /\ UNCHANGED inbox
       ELSE /\ track' = [track EXCEPT ![k].tasks[id] = "failed"]
            /\ UNCHANGED inbox
    /\ UNCHANGED <<table, now, tracking, deviceSim, wsResp, life, joinedEver>>

\* Mutant: a 410 is handled like any other failure: logged, no delete.
PostToConnection_GoneIsTransient(k, id, outcome) ==
    /\ track[k].pc = "push"
    /\ id \in DOMAIN track[k].tasks
    /\ track[k].tasks[id] = "posting"
    /\ IF outcome = "ok"
       THEN /\ inbox' = [inbox EXCEPT ![id] =
                   Append(@, [call |-> k, message |-> track[k].message])]
            /\ track' = [track EXCEPT ![k].tasks[id] = "sent"]
       ELSE /\ track' = [track EXCEPT ![k].tasks[id] = "failed"]
            /\ UNCHANGED inbox
    /\ UNCHANGED <<table, now, tracking, deviceSim, wsResp, life, joinedEver>>

\* One postToConnection settles.  Accepted: the task is done.  410: the
\* task goes on to delete the item.  Other failures: logged, done.
PostToConnection(k, id, outcome) ==
    /\ track[k].pc = "push"
    /\ id \in DOMAIN track[k].tasks
    /\ track[k].tasks[id] = "posting"
    /\ IF outcome = "ok"
       THEN /\ inbox' = [inbox EXCEPT ![id] =
                   Append(@, [call |-> k, message |-> track[k].message])]
            /\ track' = [track EXCEPT ![k].tasks[id] = "sent"]
       ELSE /\ track' = [track EXCEPT ![k].tasks[id] =
                   IF outcome = "gone" THEN "deleting" ELSE "failed"]
            /\ UNCHANGED inbox
    /\ UNCHANGED <<table, now, tracking, deviceSim, wsResp, life, joinedEver>>

\* Mutant: the 410 is logged and the item is left in the table.
DeleteStale_LogOnly(k, id, storeOk) ==
    /\ track[k].pc = "push"
    /\ id \in DOMAIN track[k].tasks
    /\ track[k].tasks[id] = "deleting"
    /\ track' = [track EXCEPT ![k].tasks[id] = IF storeOk THEN "evicted" ELSE "evictFailed"]
    /\ UNCHANGED <<table, life, now, tracking, deviceSim, inbox, wsResp, joinedEver>>

\* Mutant: a 410 makes the publish drop every item of the table.
DeleteStale_PurgeRegistry(k, id, storeOk) ==
    /\ track[k].pc = "push"
    /\ id \in DOMAIN track[k].tasks
    /\ track[k].tasks[id] = "deleting"
    /\ IF storeOk
       THEN /\ table' = [x \in {} |-> [connectionId |-> x]]
            /\ life' = [x \in ConnIds |-> IF x \in DOMAIN table THEN "gone" ELSE life[x]]
            /\ track' = [track EXCEPT ![k].tasks[id] = "evicted"]
       ELSE /\ track' = [track EXCEPT ![k].tasks[id] = "evictFailed"]
            /\ UNCHANGED <<table, life>>
    /\ UNCHANGED <<now, tracking, deviceSim, inbox, wsResp, joinedEver>>

\* Mutant: a 410 makes the publish mark the item instead of deleting it
\* (an update that writes status and clears the room).
DeleteStale_Tombstone(k, id, storeOk) ==
    /\ track[k].pc = "push"
    /\ id \in DOMAIN track[k].tasks
    /\ track[k].tasks[id] = "deleting"
    /\ IF storeOk
       THEN /\ table' = UpdateItem(table, id, [status |-> "gone", deviceCode |-> "none"])
            /\ life' = [life EXCEPT ![id] = "gone"]
            /\ track' = [track EXCEPT ![k].tasks[id] = "evicted"]
       ELSE /\ track' = [track EXCEPT ![k].tasks[id] = "evictFailed"]
            /\ UNCHANGED <<table, life>>
    /\ UNCHANGED <<now, tracking, deviceSim, inbox, wsResp, joinedEver>>

\* Mutant: a throw of the delete is not caught: it rejects Promise.all and
\* the broadcast ends at once.
DeleteStale_FailureAborts(k, id, storeOk) ==
    /\ track[k].pc = "push"
    /\ id \in DOMAIN track[k].tasks
    /\ track[k].tasks[id] = "deleting"
    /\ IF storeOk
       THEN /\ table' = DeleteItem(table, id)
            /\ life' = [life EXCEPT ![id] = "gone"]
            /\ track' = [track EXCEPT ![k].tasks[id] = "evicted"]
       ELSE /\ track' = [track EXCEPT ![k] = Done(200, "failed", track[k].tasks)]
            /\ UNCHANGED <<table, life>>
    /\ UNCHANGED <<now, tracking, deviceSim, inbox, wsResp, joinedEver>>

\* The delete a 410 triggers settles; a throw is caught and logged.
DeleteStale(k, id, storeOk) ==
    /\ track[k].pc = "push"
    /\ id \in DOMAIN track[k].tasks
    /\ track[k].tasks[id] = "deleting"
    /\ IF storeOk
       THEN /\ table' = DeleteItem(table, id)
            /\ life' = [life EXCEPT ![id] = "gone"]
            /\ track' = [track EXCEPT ![k].tasks[id] = "evicted"]
       ELSE /\ track' = [track EXCEPT ![k].tasks[id] = "evictFailed"]
            /\ UNCHANGED <<table, life>>
    /\ UNCHANGED <<now, tracking, deviceSim, inbox, wsResp, joinedEver>>

Settled(task) == task \in {"sent", "failed", "evicted", "evictFailed"}

\* Mutant: the posts are not awaited (fire-and-forget): the handler answers
\* while posts and deletes are still pending.
TrackRespond_NoAwait(k) ==
    /\ track[k].pc = "push"
    /\ track' = [track EXCEPT ![k] = Done(200, "done", track[k].tasks)]
    /\ UNCHANGED <<table, now, tracking, deviceSim, inbox, wsResp, life, joinedEver>>

\* Promise.all resolved: broadcastLocationUpdate returns and the handler
\* answers successResponse.
TrackRespond(k) ==
    /\ track[k].pc = "push"
    /\ \A id \in DOMAIN track[k].tasks : Settled(track[k].tasks[id])
    /\ track' = [track EXCEPT ![k] = Done(200, "done", track[k].tasks)]
    /\ UNCHANGED <<table, now, tracking, deviceSim, inbox, wsResp, life, joinedEver>>

\* ------------------------------------------------------------ environment
\* The wall clock advances.
Tick ==
    /\ now < MaxTicks * TickMs
    /\ now' = now + TickMs
    /\ UNCHANGED <<table, track, tracking, deviceSim, inbox, wsResp, life, joinedEver>>

\* DynamoDB's time-to-live sweep deletes an item whose ttl (seconds) has passed.
TtlSweep(id) ==
    /\ id \in DOMAIN table
    /\ table[id].ttl < now \div 1000
    /\ table' = DeleteItem(table, id)
    /\ life' = [life EXCEPT ![id] = "gone"]
    /\ UNCHANGED <<now, track, tracking, deviceSim, inbox, wsResp, joinedEver>>

\* ------------------------------------------------------- specifications
\* The whole system: route handlers and ingestion, at one instant of the clock.
Next ==
    \/ \E id \in ConnIds, storeOk \in BOOLEAN : Connect(id, storeOk, FALSE)
    \/ \E id \in ConnIds, storeOk \in BOOLEAN : Disconnect(id, storeOk, FALSE)
    \/ \E id \in ConnIds, body \in JoinBodies, storeOk \in BOOLEAN : JoinRoom(id, body, storeOk, FALSE)
    \/ \E k \in Calls, code \in Devices \cup {UnknownDevice, Undefined},
          iotSimNumber \in Sims \cup {Undefined}, body \in TrackBodies,
          dbFail \in {"none", "findUnique", "update", "create"}, endpoint \in BOOLEAN :
            TrackDevice(k, code, iotSimNumber, body, dbFail, endpoint, FALSE)
    \/ \E k \in Calls, storeOk \in BOOLEAN : BroadcastQuery(k, storeOk)
    \/ \E k \in Calls, id \in ConnIds, outcome \in PostOutcomes : PostToConnection(k, id, outcome)
    \/ \E k \in Calls, id \in ConnIds, storeOk \in BOOLEAN : DeleteStale(k, id, storeOk)
    \/ \E k \in Calls : TrackRespond(k)

Spec == Init /\ [][Next]_vars

\* The same system with the progress the handler makes by itself: a DynamoDB
\* request that was sent settles, and the handler responds once Promise.all
\* has resolved.  Nothing in the code bounds the wait for the gateway's
\* answer to postToConnection (no httpOptions, no timer, no Promise.race),
\* so no fairness is assumed for it: the answer may never come.
FairSpec ==
    /\ Spec
    /\ WF_vars(\E k \in Calls, storeOk \in BOOLEAN : BroadcastQuery(k, storeOk))
    /\ WF_vars(\E k \in Calls, id \in ConnIds, storeOk \in BOOLEAN : DeleteStale(k, id, storeOk))
    /\ WF_vars(\E k \in Calls : TrackRespond(k))

\* The route handlers with their responses observed, the clock and the
\* time-to-live sweep.
NextRoutes ==
    \/ \E id \in ConnIds, storeOk \in BOOLEAN : Connect(id, storeOk, TRUE)
    \/ \E id \in ConnIds, storeOk \in BOOLEAN : Disconnect(id, storeOk, TRUE)
    \/ \E id \in ConnIds, body \in JoinBodies, storeOk \in BOOLEAN : JoinRoom(id, body, storeOk, TRUE)
    \/ \E id \in ConnIds : Default(id, TRUE)
    \/ Tick
    \/ \E id \in ConnIds : TtlSweep(id)

SpecRoutes == Init /\ [][NextRoutes]_vars

\* The body of a well-formed join-room message for device code d.
JoinBody(d) == [kind |-> "json", obj |-> [action |-> "join-room", deviceCode |-> d]]

\* Two invocations of the ingestion handler in flight at once (each Lambda
\* invocation has its own execution environment; they share the table and
\* the gateway).  The registry is written by the route handlers before the
\* first invocation starts and only by the two broadcasts afterwards, and
\* the two invocations are for different device codes.
OverlapCalls == {1, 2}

\* The valid body the overlapping invocations post.
OverlapBody == [kind |-> "json", obj |-> [lat |-> "12.9", long |-> "77.6"]]

InitOverlap ==
    /\ table = [x \in {} |-> [connectionId |-> x]]
    /\ now = 0
    /\ track = [k \in OverlapCalls |-> IdleCall]
    /\ tracking = {}
    /\ deviceSim = [d \in Devices |-> IF d = "DEV1" THEN "S1" ELSE "S0"]
    /\ inbox = [id \in ConnIds |-> <<>>]
    /\ wsResp = NoResp
    /\ life = [id \in ConnIds |-> "none"]
    /\ joinedEver = {}

NoneStarted == \A k \in OverlapCalls : track[k].pc = "idle"

NextOverlap ==
    \/ NoneStarted /\ \E id \in ConnIds : Connect(id, TRUE, FALSE)
    \/ NoneStarted /\ \E id \in ConnIds, d \in Devices :
          JoinRoom(id, JoinBody(d), TRUE, FALSE)
    \/ \E k \in OverlapCalls, code \in Devices :
          /\ \A r \in tracking : r.deviceCode # code
          /\ TrackDevice(k, code, "S1", OverlapBody, "none", TRUE, TRUE)
    \/ \E k \in OverlapCalls, storeOk \in BOOLEAN : BroadcastQuery(k, storeOk)
    \/ \E k \in OverlapCalls, id \in ConnIds, outcome \in PostOutcomes : PostToConnection(k, id, outcome)
    \/ \E k \in OverlapCalls, id \in ConnIds, storeOk \in BOOLEAN : DeleteStale(k, id, storeOk)
    \/ \E k \in OverlapCalls : TrackRespond(k)

SpecOverlap == InitOverlap /\ [][NextOverlap]_vars

\* The registry and one ingestion under the clock: connections connect and
\* join, time passes, the time-to-live sweep deletes expired items at some
\* later moment of its own choosing, and a valid fix is published.
NextExpiry ==
    \/ \E id \in ConnIds : Connect(id, TRUE, FALSE)
    \/ \E id \in ConnIds, d \in Devices :
          JoinRoom(id, JoinBody(d), TRUE, FALSE)
    \/ Tick
    \/ \E id \in ConnIds : TtlSweep(id)
    \/ \E k \in Calls, code \in Devices : TrackDevice(k, code, "S1", OverlapBody, "none", TRUE, FALSE)
    \/ \E k \in Calls : BroadcastQuery(k, TRUE)
    \/ \E k \in Calls, id \in ConnIds, outcome \in PostOutcomes : PostToConnection(k, id, outcome)
    \/ \E k \in Calls, id \in ConnIds, storeOk \in BOOLEAN : DeleteStale(k, id, storeOk)
    \/ \E k \in Calls : TrackRespond(k)

SpecExpiry == Init /\ [][NextExpiry]_vars

\* One publish racing with connects and joins whose responses are observed:
\* well-formed requests, the table answering every request.
NextRace ==
    \/ \E id \in ConnIds : Connect(id, TRUE, TRUE)
    \/ \E id \in ConnIds, d \in Devices : JoinRoom(id, JoinBody(d), TRUE, TRUE)
    \/ \E k \in Calls, code \in Devices : TrackDevice(k, code, "S1", OverlapBody, "none", TRUE, FALSE)
    \/ \E k \in Calls : BroadcastQuery(k, TRUE)
    \/ \E k \in Calls, id \in ConnIds, outcome \in PostOutcomes : PostToConnection(k, id, outcome)
    \/ \E k \in Calls, id \in ConnIds : DeleteStale(k, id, TRUE)
    \/ \E k \in Calls : TrackRespond(k)

SpecRace == Init /\ [][NextRace]_vars

\* Two invocations one after the other: the second request is sent after
\* the first was answered.  The registry is written before the first starts.
NextSequential ==
    \/ NoneStarted /\ \E id \in ConnIds : Connect(id, TRUE, FALSE)
    \/ NoneStarted /\ \E id \in ConnIds, d \in Devices : JoinRoom(id, JoinBody(d), TRUE, FALSE)
    \/ \E k \in OverlapCalls, code \in Devices :
          TrackDevice(k, code, "S1", OverlapBody, "none", TRUE, FALSE)
    \/ \E k \in OverlapCalls, storeOk \in BOOLEAN : BroadcastQuery(k, storeOk)
    \/ \E k \in OverlapCalls, id \in ConnIds, outcome \in PostOutcomes : PostToConnection(k, id, outcome)
    \/ \E k \in OverlapCalls, id \in ConnIds, storeOk \in BOOLEAN : DeleteStale(k, id, storeOk)
    \/ \E k \in OverlapCalls : TrackRespond(k)

SpecSequential == InitOverlap /\ [][NextSequential]_vars

\* Two invocations in flight at once for any device codes, the same one
\* included.  The registry is written before the first starts.
NextConcurrent ==
    \/ NoneStarted /\ \E id \in ConnIds : Connect(id, TRUE, FALSE)
    \/ NoneStarted /\ \E id \in ConnIds, d \in Devices : JoinRoom(id, JoinBody(d), TRUE, FALSE)
    \/ \E k \in OverlapCalls, code \in Devices :
          TrackDevice(k, code, "S1", OverlapBody, "none", TRUE, TRUE)
    \/ \E k \in OverlapCalls : BroadcastQuery(k, TRUE)
    \/ \E k \in OverlapCalls, id \in ConnIds, outcome \in PostOutcomes : PostToConnection(k, id, outcome)
    \/ \E k \in OverlapCalls, id \in ConnIds, storeOk \in BOOLEAN : DeleteStale(k, id, storeOk)
    \/ \E k \in OverlapCalls : TrackRespond(k)

SpecConcurrent == InitOverlap /\ [][NextConcurrent]_vars

\* ------------------------------------------------------------ properties
\* The positions in connection id's inbox of the payloads of invocation k.
Entries(id, k) == {i \in 1..Len(inbox[id]) : inbox[id][i].call = k}

\* The membership lookup: the connections joined to device code R.
listMembers(R) == QueryByDeviceCode(table, R)

\* This step is invocation k's query on the registry returning normally.
LookupReturns(k) ==
    /\ track[k].pc = "query"
    /\ \/ track'[k].pc = "push"
       \/ track'[k].pc = "done" /\ track'[k].broadcast = "empty"

\* The connections invocation k starts a push to in this step.
Attempted(k) == IF track'[k].pc = "push" THEN DOMAIN track'[k].tasks ELSE {}

\* This step is the gateway accepting invocation k's payload for id.
Accepted(k, id) ==
    /\ track[k].pc = "push" /\ track'[k].pc = "push"
    /\ id \in DOMAIN track[k].tasks
    /\ track[k].tasks[id] = "posting" /\ track'[k].tasks[id] = "sent"

RowOf(k) == CHOOSE r \in tracking : r.call = k

ZeroReport == [attempted |-> 0, delivered |-> 0, evicted |-> 0]

\* C4: a connection for which no join ever succeeded is never among the
\* connections a publish pushes to and never receives a payload, whatever
\* is published.
C4_NeverJoinedNeverPushed ==
    \A id \in ConnIds : id \notin joinedEver =>
        /\ inbox[id] = <<>>
        /\ \A R \in Devices \cup {UnknownDevice} : id \notin listMembers(R)
        /\ \A k \in Calls : track[k].pc = "push" => id \notin DOMAIN track[k].tasks

\* C4 witness: c1 is connected and never joined; a publish delivered a
\* payload to c2 and none to c1.
C4_Witness ==
    /\ "c1" \in DOMAIN table
    /\ life["c1"] = "connected"
    /\ "c1" \notin joinedEver
    /\ track[1].pc = "done" /\ track[1].broadcast = "done"
    /\ track[1].report.delivered = 1
    /\ Len(inbox["c2"]) = 1
    /\ inbox["c1"] = <<>>

\* C5: when a publish looks up a device code that no connection is joined
\* to (no connection's last registry write is a join of it), the publish
\* ends there: the handler answers 200, nothing
\* is attempted, delivered or evicted, and neither the registry nor any
\* inbox changes, in that step or later.
C5_EmptyRoomNoPush ==
    /\ [][\A k \in Calls :
            (track[k].pc = "query" /\ track'[k] # track[k]
             /\ \A id \in ConnIds : life[id] # track[k].deviceCode) =>
                /\ track'[k].pc = "done"
                /\ track'[k].statusCode = 200
                /\ track'[k].report = ZeroReport
                /\ table' = table
                /\ inbox' = inbox]_vars
    /\ [](\A k \in Calls : (track[k].pc = "done" /\ track[k].broadcast = "empty") =>
            /\ track[k].report = ZeroReport
            /\ \A id \in ConnIds : Entries(id, k) = {})

\* C5 witness: a publish for DEV1 found nobody while c1 was in DEV2.
C5_Witness ==
    /\ track[1].pc = "done" /\ track[1].broadcast = "empty"
    /\ track[1].statusCode = 200
    /\ RowOf(1).deviceCode = "DEV1"
    /\ "c1" \in listMembers("DEV2")
    /\ inbox["c1"] = <<>>

\* C6: while a publish runs, a member whose push the gateway accepted
\* holds exactly one payload of that publish and every other connection
\* none; the payload is the location-update of the published fix (device
\* code and trackedAt of the row that was stored).  When the publish has
\* ended no connection holds more than one payload of it and the payloads
\* held are as many as the report's delivered.
PayloadCount(k) ==
    Cardinality({<<id, i>> \in ConnIds \X (1..MaxCalls) : i \in Entries(id, k)})

C6_ExactlyOnePayload ==
    /\ \A k \in Calls : track[k].pc = "push" =>
          \A id \in ConnIds :
             Cardinality(Entries(id, k)) =
                IF id \in DOMAIN track[k].tasks /\ track[k].tasks[id] = "sent" THEN 1 ELSE 0
    /\ \A k \in Calls : track[k].pc = "done" =>
          /\ \A id \in ConnIds : Cardinality(Entries(id, k)) <= 1
          /\ PayloadCount(k) = track[k].report.delivered
    /\ \A id \in ConnIds : \A i \in 1..Len(inbox[id]) :
          LET e == inbox[id][i] IN
          /\ e.message.type = "location-update"
          /\ e.message.deviceCode = RowOf(e.call).deviceCode
          /\ e.message.data.trackedAt = ToISOString(RowOf(e.call).trackedAt)

\* C6 witness: both members of a room got the one payload of a publish
\* whose pushes were all accepted.
C6_Witness ==
    /\ track[1].pc = "done" /\ track[1].broadcast = "done"
    /\ track[1].report = [attempted |-> 2, delivered |-> 2, evicted |-> 0]
    /\ Len(inbox["c1"]) = 1 /\ Len(inbox["c2"]) = 1
    /\ inbox["c1"][1].message.deviceCode = "DEV1"

\* This step ends invocation k's broadcast: Promise.all resolved.
Completes(k) == track[k].pc = "push" /\ track'[k].pc = "done"

C8_DisconnectIdempotent ==
    [][\A id \in ConnIds : id \notin DOMAIN table =>
          /\ Disconnect(id, TRUE, TRUE) => (table' = table /\ wsResp'.statusCode = 200)
          /\ Disconnect(id, FALSE, TRUE) => table' = table]_vars

\* C8 witness: c1 had an item once (it had joined), the item was deleted,
\* and a further $disconnect for c1 found no item and answered 200.
C8_Witness ==
    /\ wsResp.route = "disconnect" /\ wsResp.connectionId = "c1"
    /\ ~wsResp.existed
    /\ wsResp.statusCode = 200
    /\ "c1" \in joinedEver
    /\ "c1" \notin DOMAIN table

\* C9 as claimed: a join-room for a connection that has no item changes
\* nothing in the table and does not answer 200.
C9_JoinAbsentRejected ==
    [][\A id \in ConnIds :
          (id \notin DOMAIN table
           /\ \E body \in JoinBodies, storeOk \in BOOLEAN : JoinRoom(id, body, storeOk, TRUE)) =>
             /\ table' = table
             /\ wsResp'.statusCode # 200]_vars

\* The body names no device code: none at all, or the empty string.
MissingOrEmpty(body) ==
    \/ body.kind = "null"
    \/ body.kind = "json" /\ "deviceCode" \notin DOMAIN body.obj
    \/ body.kind = "json" /\ "deviceCode" \in DOMAIN body.obj /\ body.obj.deviceCode = ""

\* C10: a join-room whose body has no deviceCode, or an empty one, is
\* answered 400 and issues no update: the whole table (the sender's
\* deviceCode, joinedAt and ttl included) is as before.
C10_MissingDeviceCodeRejected ==
    [][\A id \in ConnIds, body \in JoinBodies, storeOk \in BOOLEAN :
          (MissingOrEmpty(body) /\ JoinRoom(id, body, storeOk, TRUE)) =>
             /\ wsResp'.statusCode = 400
             /\ table' = table
             /\ life' = life]_vars

\* C10 witness: c1, joined to a room, sent a join-room that was answered
\* 400 and is still in its room.
C10_Witness ==
    /\ wsResp.route = "join-room" /\ wsResp.connectionId = "c1"
    /\ wsResp.statusCode = 400
    /\ wsResp.existed
    /\ life["c1"] \in Devices
    /\ "c1" \in listMembers(life["c1"])
\* C11: a message routed to $default is answered 200 and changes neither
\* the table nor any inbox nor any invocation of the ingestion handler.
C11_DefaultTouchesNothing ==
    [][\A id \in ConnIds : Default(id, TRUE) =>
          /\ wsResp'.route = "default"
          /\ wsResp'.statusCode = 200
          /\ table' = table
          /\ inbox' = inbox
          /\ track' = track
          /\ life' = life]_vars

\* C11 witness: c1, joined to a room, sent an unrecognized message; it was
\* answered 200 and c1 is still in its room.
C11_Witness ==
    /\ wsResp.route = "default" /\ wsResp.connectionId = "c1"
    /\ wsResp.statusCode = 200
    /\ wsResp.existed
    /\ life["c1"] \in Devices
    /\ "c1" \in listMembers(life["c1"])
\* The tracking rows prisma.tracking.create stored for invocation k.
Persisted(k) == {r \in tracking : r.call = k}

\* C12: a payload is posted only for a fix whose tracking row is already
\* stored: every step that appends a payload of invocation k to an inbox
\* starts in a state holding the row of k, the broadcast is entered only
\* with the row stored, and an invocation that ended before the broadcast
\* (validation, unknown device, a prisma request throwing) has stored no
\* payload anywhere, then and ever after.
C12_PushOnlyAfterPersisted ==
    /\ [][\A k \in Calls : \A id \in ConnIds :
            Entries(id, k)' # Entries(id, k) => Persisted(k) # {}]_vars
    /\ [](\A k \in Calls :
            /\ track[k].pc \in {"query", "push"} => Persisted(k) # {}
            /\ PayloadCount(k) > 0 => Persisted(k) # {}
            /\ (track[k].pc = "done" /\ track[k].broadcast = "unreached") =>
                  /\ PayloadCount(k) = 0
                  /\ track[k].statusCode # 200)

\* C12 witness: the fix of invocation 1 was stored and then delivered to c1.
C12_Witness ==
    /\ Persisted(1) # {}
    /\ Entries("c1", 1) # {}
    /\ track[1].pc = "push"
\* C13: whatever fails in the broadcast (the query throwing, a post
\* answered with 410 or another error, the delete of a stale item
\* throwing), a stored tracking row is never removed or changed, and the
\* invocation that stored it answers 200.
C13_BroadcastFailureKeepsOutcome ==
    /\ [][tracking \subseteq tracking']_vars
    /\ [][\A k \in Calls : track[k].pc \in {"query", "push"} => tracking' = tracking]_vars
    /\ [](\A k \in Calls : (track[k].pc = "done" /\ Persisted(k) # {}) =>
                              track[k].statusCode = 200)
    /\ [](\A k \in Calls : (track[k].pc = "done" /\ track[k].broadcast \in {"failed", "empty", "done"}) =>
                              (Persisted(k) # {} /\ track[k].statusCode = 200))

\* C13 witness: the query of invocation 1 threw while a connection was
\* joined to the device; the row is stored and the answer is 200.
C13_Witness ==
    /\ track[1].pc = "done" /\ track[1].broadcast = "failed"
    /\ track[1].statusCode = 200
    /\ \E r \in Persisted(1) : listMembers(r.deviceCode) # {}
\* C14: two invocations in flight for different device codes.  A step of
\* one leaves the other's invocation, the other's payloads and the items
\* of the other room's members as they are; an invocation pushes to
\* exactly the members of its own room; and every step of an invocation
\* is enabled whatever the position of the other one (a second invocation
\* can start, query, post, delete and respond while the first is running).
C14_DifferentRoomsDoNotInterfere ==
    /\ [][\A k \in OverlapCalls : \A j \in OverlapCalls \ {k} :
            (track'[j] # track[j] /\ track[k].pc # "idle") =>
               /\ track'[k] = track[k]
               /\ \A id \in ConnIds : Entries(id, k)' = Entries(id, k)
               /\ \A id \in QueryByDeviceCode(table, RowOf(k).deviceCode) :
                     id \in DOMAIN table' /\ table'[id] = table[id]
               /\ QueryByDeviceCode(table', RowOf(k).deviceCode)
                     = QueryByDeviceCode(table, RowOf(k).deviceCode)]_vars
    /\ [][\A k \in OverlapCalls : (track[k].pc = "query" /\ track'[k].pc = "push") =>
            DOMAIN track'[k].tasks = {id \in ConnIds : life[id] = track[k].deviceCode}]_vars
    /\ [](\A k \in OverlapCalls :
            /\ track[k].pc = "query" => ENABLED BroadcastQuery(k, TRUE)
            /\ track[k].pc = "push" =>
                  /\ \A id \in DOMAIN track[k].tasks :
                        /\ track[k].tasks[id] = "posting" => ENABLED PostToConnection(k, id, "ok")
                        /\ track[k].tasks[id] = "deleting" => ENABLED DeleteStale(k, id, TRUE)
                  /\ (\A id \in DOMAIN track[k].tasks : Settled(track[k].tasks[id])) =>
                        ENABLED TrackRespond(k))
    /\ []((track[1].pc \in {"query", "push"} /\ track[2].pc = "idle") =>
            \E code \in Devices : ENABLED TrackDevice(2, code, "S1", OverlapBody, "none", TRUE, TRUE))

\* C14 witness: the invocation for c2's room started second, found c2
\* gone, evicted it and answered, all while the invocation for c1's room
\* was still waiting for its post to c1; c1's item is still in the table.
C14_Witness ==
    /\ DOMAIN track = OverlapCalls
    /\ track[1].pc = "push" /\ DOMAIN track[1].tasks = {"c1"}
    /\ track[1].tasks["c1"] = "posting"
    /\ track[2].pc = "done" /\ track[2].report = [attempted |-> 1, delivered |-> 0, evicted |-> 1]
    /\ "c1" \in DOMAIN table /\ "c2" \notin DOMAIN table
\* C15: the posts of one publish are all started by the query step and
\* settle independently: while the post to a member has not settled, the
\* gateway can accept it whatever the state of the posts to the other
\* members (pending, failed, gone, evicted), and settling one post
\* changes no other task of the publish.
C15_PushesAreIndependent ==
    /\ [](\A k \in Calls : track[k].pc = "push" =>
            \A id \in DOMAIN track[k].tasks : track[k].tasks[id] = "posting" =>
               /\ ENABLED PostToConnection(k, id, "ok")
               /\ ENABLED PostToConnection(k, id, "error"))
    /\ [][\A k \in Calls : (track[k].pc = "query" /\ track'[k].pc = "push") =>
            \A id \in DOMAIN track'[k].tasks : track'[k].tasks[id] = "posting"]_vars
    /\ [][\A k \in Calls : \A id \in ConnIds : Accepted(k, id) =>
            /\ Len(inbox'[id]) = Len(inbox[id]) + 1
            /\ \A other \in DOMAIN track[k].tasks \ {id} :
                  /\ track'[k].tasks[other] = track[k].tasks[other]
                  /\ inbox'[other] = inbox[other]]_vars

\* C15 witness: the payload reached c2 while the post to c1, a member of
\* the same room, is still pending.
C15_Witness ==
    /\ track[1].pc = "push"
    /\ DOMAIN track[1].tasks = {"c1", "c2"}
    /\ track[1].tasks["c1"] = "posting"
    /\ track[1].tasks["c2"] = "sent"
    /\ Entries("c2", 1) # {} /\ Entries("c1", 1) = {}
\* C16: a post that fails with anything but 410 changes no item of the
\* table and no inbox; its task is finished as failed: the publish sends
\* no further post and no delete for that connection, and the connection
\* gets no payload of that publish.
C16_TransientFailureLeavesEntry ==
    /\ [][\A k \in Calls : \A id \in ConnIds : PostToConnection(k, id, "error") =>
            /\ table' = table
            /\ inbox' = inbox
            /\ track'[k].tasks[id] = "failed"]_vars
    /\ [][\A k \in Calls : track[k].pc = "push" =>
            \A id \in DOMAIN track[k].tasks : track[k].tasks[id] = "failed" =>
               /\ track'[k].pc = "push" => track'[k].tasks[id] = "failed"
               /\ Entries(id, k)' = {}]_vars
    /\ [](\A k \in Calls : track[k].pc = "push" =>
            \A id \in DOMAIN track[k].tasks : track[k].tasks[id] = "failed" =>
               /\ Entries(id, k) = {}
               /\ \A outcome \in PostOutcomes : ~ENABLED PostToConnection(k, id, outcome)
               /\ \A storeOk \in BOOLEAN : ~ENABLED DeleteStale(k, id, storeOk))

\* C16 witness: the publish is over, its only post, to c1, failed with a
\* transient error, and c1 is still a member of the room.
C16_Witness ==
    /\ track[1].pc = "done" /\ track[1].broadcast = "done"
    /\ track[1].report = [attempted |-> 1, delivered |-> 0, evicted |-> 0]
    /\ life["c1"] \in Devices /\ life["c2"] = "none"
    /\ "c1" \in listMembers(RowOf(1).deviceCode)
    /\ inbox["c1"] = <<>>
\* C17 as claimed: a publish that has started its posts always ends, even
\* when the gateway never answers one of them.
C17_PublishTerminates ==
    \A k \in Calls : (track[k].pc = "push") ~> (track[k].pc = "done")
\* The item of connection id is past its time to live (the condition under
\* which the sweep may delete it).
Expired(id) == id \in DOMAIN table /\ table[id].ttl < now \div 1000

\* C18 as claimed: the query for a room returns no item whose ttl has
\* passed, and a publish starts no post to, and delivers no payload to, a
\* connection whose item is past its ttl, whether or not the sweep has
\* deleted the item yet.
C18_ExpiredNeverReached ==
    /\ [](\A R \in Devices : \A id \in listMembers(R) : ~Expired(id))
    /\ [][\A k \in Calls : (track[k].pc = "query" /\ track'[k].pc = "push") =>
            \A id \in DOMAIN track'[k].tasks : ~Expired(id)]_vars
    /\ [][\A k \in Calls : \A id \in ConnIds : Accepted(k, id) => ~Expired(id)]_vars
\* C19 as claimed: once the item of a connection that had joined a room
\* has been deleted by $disconnect or by the delete after a 410, no join-room for that
\* connection and no step of a publish brings an item for it back into the
\* table or into the result of the query for any room.
C19_GoneIsTerminal ==
    [][\A id \in ConnIds : (id \in joinedEver /\ life[id] = "gone" /\ id \notin DOMAIN table) =>
          /\ \A body \in JoinBodies, storeOk \in BOOLEAN :
                JoinRoom(id, body, storeOk, FALSE) =>
                   /\ id \notin DOMAIN table'
                   /\ \A R \in Devices : id \notin QueryByDeviceCode(table', R)
          /\ (\E k \in Calls : track'[k] # track[k]) => id \notin DOMAIN table']_vars
\* C20: a publish for R racing with join-room messages.  The publish
\* pushes to a connection exactly when the connection's join of R was
\* written before the query; a join is possible at every position of the
\* publish, answers 200, writes deviceCode and leaves the publish as it
\* is; the publish answers 200; a step of the publish changes no item
\* other than deleting one whose post was answered 410; and at every
\* moment the table holds one item per connection whose last write was a
\* connect or a join (with the device code of its last join) and no item
\* for any other connection.
C20_JoinRacingPublish ==
    /\ [][\A k \in Calls : LookupReturns(k) =>
            Attempted(k) = {id \in ConnIds : life[id] = track[k].deviceCode}]_vars
    /\ [](\A id \in ConnIds, d \in Devices : ENABLED JoinRoom(id, JoinBody(d), TRUE, TRUE))
    /\ [][\A id \in ConnIds, d \in Devices : JoinRoom(id, JoinBody(d), TRUE, TRUE) =>
            /\ wsResp'.statusCode = 200
            /\ id \in DOMAIN table' /\ table'[id].deviceCode = d
            /\ \A other \in DOMAIN table \ {id} : other \in DOMAIN table' /\ table'[other] = table[other]
            /\ track' = track /\ inbox' = inbox]_vars
    /\ [][\A k \in Calls : track'[k] # track[k] =>
            \A id \in DOMAIN table :
               \/ id \in DOMAIN table' /\ table'[id] = table[id]
               \/ /\ track[k].pc = "push" /\ id \in DOMAIN track[k].tasks
                  /\ track[k].tasks[id] = "deleting" /\ id \notin DOMAIN table']_vars
    /\ [](\A k \in Calls : track[k].pc = "done" => track[k].statusCode = 200)
    /\ [](\A id \in ConnIds :
            /\ id \in DOMAIN table <=> life[id] \notin {"none", "gone"}
            /\ life[id] \in Devices =>
                  /\ table[id].deviceCode = life[id]
                  /\ {R \in Devices : id \in listMembers(R)} = {life[id]}
            /\ life[id] = "connected" => \A R \in Devices : id \notin listMembers(R))

\* C20 witness: c2 joined the room after the publish for it had queried
\* the table: the publish pushes to c1 only, the join was answered 200 and
\* c2 is a member of the room.
C20_Witness ==
    /\ track[1].pc = "push" /\ DOMAIN track[1].tasks = {"c1"}
    /\ wsResp = [route |-> "join-room", connectionId |-> "c2", statusCode |-> 200,
                 existed |-> wsResp.existed]
    /\ life["c2"] = track[1].deviceCode
    /\ "c2" \in listMembers(track[1].deviceCode)
    /\ inbox["c2"] = <<>>
\* C21 as claimed: when the query of the broadcast throws (the table is
\* unreachable), the failure reaches the caller of the broadcast, the
\* handler, whose catch answers 500: the invocation does not end like a
\* successful publish to an empty room (200, nothing attempted).
C21_LookupFailureIsHardError ==
    /\ [][\A k \in Calls : BroadcastQuery(k, FALSE) => track'[k].statusCode # 200]_vars
    /\ [](\A k \in Calls : (track[k].pc = "done" /\ track[k].broadcast = "failed") =>
            ~(track[k].statusCode = 200 /\ track[k].report = ZeroReport))
C23_ConnectOverwrites ==
    /\ [][\A id \in ConnIds : Connect(id, TRUE, TRUE) =>
            /\ wsResp'.statusCode = 200
            /\ DOMAIN table' = DOMAIN table \cup {id}
            /\ table'[id] = [connectionId |-> id, timestamp |-> now,
                             ttl |-> (now \div 1000) + TtlSeconds, status |-> "connected"]
            /\ "deviceCode" \notin DOMAIN table'[id]
            /\ \A R \in Devices : id \notin QueryByDeviceCode(table', R)
            /\ \A other \in DOMAIN table \ {id} : table'[other] = table[other]
            /\ table' = PutItem(PutItem(table, id, ConnectItem(id, now)), id, ConnectItem(id, now))]_vars
    /\ [][\A id \in ConnIds :
            (Connect(id, TRUE, TRUE) /\ wsResp.route = "connect" /\ wsResp.connectionId = id
               /\ wsResp.statusCode = 200 /\ id \in DOMAIN table /\ table[id].timestamp = now
               /\ life[id] = "connected")
            => table' = table]_vars

\* C23 witness: c1 had joined a room at time 0; after the clock advanced
\* a $connect for c1 was answered 200 and c1's item has no deviceCode and
\* the ttl of the later instant.
C23_Witness ==
    /\ wsResp.route = "connect" /\ wsResp.connectionId = "c1" /\ wsResp.statusCode = 200
    /\ "c1" \in joinedEver
    /\ now = TickMs
    /\ "c1" \in DOMAIN table
    /\ "deviceCode" \notin DOMAIN table["c1"]
    /\ table["c1"].ttl = (TickMs \div 1000) + TtlSeconds
    /\ life["c1"] = "connected"
\* C24: the message of a publish is built once, at the query step, and
\* stays as built while the posts run; it has exactly the fields type,
\* deviceCode, iotSimNumber and data, with type "location-update", the
\* device code and SIM number of the request, and as data the posted lat
\* and long (fields the request left out are absent) with the trackedAt
\* of the stored row; and every payload of the publish found in any
\* inbox is that message.
C24_OnePayloadForAll ==
    /\ [](\A k \in Calls : track[k].pc = "push" =>
            /\ DOMAIN track[k].message = {"type", "deviceCode", "iotSimNumber", "data"}
            /\ track[k].message.type = "location-update"
            /\ track[k].message.deviceCode = RowOf(k).deviceCode
            /\ track[k].message.iotSimNumber = deviceSim[RowOf(k).deviceCode]
            /\ track[k].message.iotSimNumber \in Sims
            /\ track[k].message.data =
                  [lat |-> "12.9", long |-> "77.6", trackedAt |-> ToISOString(RowOf(k).trackedAt)]
            /\ \A id \in ConnIds : \A i \in Entries(id, k) :
                  inbox[id][i].message = track[k].message)
    /\ [](\A id1 \in ConnIds, id2 \in ConnIds :
            \A i \in 1..Len(inbox[id1]) : \A j \in 1..Len(inbox[id2]) :
               inbox[id1][i].call = inbox[id2][j].call =>
                  inbox[id1][i].message = inbox[id2][j].message)
    /\ [][\A k \in Calls : (track[k].pc = "push" /\ track'[k].pc = "push") =>
            track'[k].message = track[k].message]_vars

\* C24 witness: while the publish is still open both members of the room
\* hold its payload, the same for both.
C24_Witness ==
    /\ track[1].pc = "push"
    /\ track[1].tasks = [id \in ConnIds |-> "sent"]
    /\ Len(inbox["c1"]) = 1 /\ Len(inbox["c2"]) = 1
    /\ inbox["c1"][1].message = inbox["c2"][1].message
    /\ inbox["c1"][1].message.iotSimNumber = "S1"
    /\ inbox["c1"][1].message.data.lat = "12.9"
C26_RespondsAfterAllSettled ==
    /\ [][\A k \in Calls : Completes(k) =>
            /\ \A id \in DOMAIN track[k].tasks :
                  track[k].tasks[id] \in {"sent", "failed", "evicted", "evictFailed"}
            /\ track'[k].report.attempted = Cardinality(DOMAIN track[k].tasks)
            /\ track'[k].report.delivered = PayloadCount(k)]_vars
    /\ [][\A k \in Calls : track[k].pc = "done" =>
            /\ \A id \in ConnIds : Entries(id, k)' = Entries(id, k)
            /\ track'[k] = track[k]]_vars
    /\ [](\A k \in Calls : (track[k].pc = "done" /\ track[k].broadcast = "done") =>
            /\ track[k].report.delivered = PayloadCount(k)
            /\ track[k].report.delivered + track[k].report.evicted <= track[k].report.attempted)

\* C26 witness: the publish to a room of two responded after one post
\* was accepted and the other ended with 410 and a successful delete.
C26_Witness ==
    /\ track[1].pc = "done" /\ track[1].broadcast = "done"
    /\ track[1].statusCode = 200
    /\ track[1].report = [attempted |-> 2, delivered |-> 1, evicted |-> 1]
    /\ PayloadCount(1) = 1
    /\ Cardinality(DOMAIN table) <= 1
C28_EvictionIsBestEffort ==
    /\ [][\A k \in OverlapCalls : \A id \in ConnIds : DeleteStale(k, id, FALSE) =>
            /\ table' = table /\ inbox' = inbox /\ life' = life
            /\ track'[k].pc = "push"
            /\ track'[k].tasks[id] = "evictFailed"
            /\ \A other \in DOMAIN track[k].tasks \ {id} :
                  track'[k].tasks[other] = track[k].tasks[other]
            /\ \A j \in OverlapCalls \ {k} : track'[j] = track[j]]_vars
    /\ [](\A k \in OverlapCalls : track[k].pc = "push" =>
            /\ \A id \in DOMAIN track[k].tasks : track[k].tasks[id] = "posting" =>
                  ENABLED PostToConnection(k, id, "ok")
            /\ (\A id \in DOMAIN track[k].tasks : Settled(track[k].tasks[id])) =>
                  ENABLED TrackRespond(k))
    /\ [](\A k \in OverlapCalls : track[k].pc = "done" => track[k].statusCode = 200)
    /\ [][\A j \in OverlapCalls : (track[j].pc = "query" /\ track'[j].pc # "query") =>
            \A k \in OverlapCalls \ {j} : track[k].pc = "push" =>
               \A id \in DOMAIN track[k].tasks :
                  (track[k].tasks[id] = "evictFailed" /\ track[k].deviceCode = track[j].deviceCode
                     /\ life[id] = track[j].deviceCode)
                  => /\ track'[j].pc = "push"
                     /\ id \in DOMAIN track'[j].tasks
                     /\ track'[j].tasks[id] = "posting"]_vars
    /\ [][\A k \in OverlapCalls : \A id \in ConnIds :
            (DeleteStale(k, id, TRUE) /\ id \notin DOMAIN table) =>
               /\ table' = table
               /\ track'[k].pc = "push" /\ track'[k].tasks[id] = "evicted"]_vars
    /\ [](\A id \in ConnIds :
            (\A k \in OverlapCalls : /\ track[k].pc = "push"
                                     /\ id \in DOMAIN track[k].tasks
                                     /\ track[k].tasks[id] = "evicted")
            => id \notin DOMAIN table)

\* C28 witness: the publish to the room of c1 and c2 delivered to c2, got
\* 410 for c1 and its delete threw; c1 is still in the room when a second
\* publish to that room is about to query.
C28_Witness ==
    /\ DOMAIN track = OverlapCalls
    /\ track[1].pc = "push"
    /\ track[1].tasks = [id \in ConnIds |-> IF id = "c1" THEN "evictFailed" ELSE "sent"]
    /\ track[2].pc = "query" /\ track[2].deviceCode = track[1].deviceCode
    /\ "c1" \in listMembers(track[2].deviceCode)
    /\ Len(inbox["c2"]) = 1
\* The delete that invocation k owes for connection id is still pending.
DeletePending(k, id) ==
    /\ track[k].pc = "push"
    /\ id \in DOMAIN track[k].tasks
    /\ track[k].tasks[id] = "deleting"

\* C29: a post answered 410 always leads to a delete of that connection's
\* item, the delete is eventually carried out, and when it succeeds the
\* item is gone from the table and from every room at once; a publish
\* does not respond while a delete is pending, so when it completes every
\* connection it evicted, and that has not been written again since, has
\* no item.  An item leaves the table only by $disconnect or by the
\* delete of a publish that found it in its room.
C29_DeadConnectionEventuallyRemoved ==
    /\ [][\A k \in Calls : \A id \in ConnIds : PostToConnection(k, id, "gone") =>
            (track'[k].pc = "push" /\ track'[k].tasks[id] = "deleting" /\ table' = table)]_vars
    /\ \A k \in Calls : \A id \in ConnIds : DeletePending(k, id) ~> ~DeletePending(k, id)
    /\ [][\A k \in Calls : \A id \in ConnIds : DeleteStale(k, id, TRUE) =>
            /\ id \notin DOMAIN table'
            /\ \A R \in Devices : id \notin QueryByDeviceCode(table', R)
            /\ track'[k].tasks[id] = "evicted"]_vars
    /\ [][\A k \in Calls : Completes(k) =>
            \A id \in DOMAIN track[k].tasks :
               /\ track[k].tasks[id] # "deleting"
               /\ (track[k].tasks[id] = "evicted" /\ life[id] = "gone") => id \notin DOMAIN table']_vars
    /\ [][\A id \in DOMAIN table : id \notin DOMAIN table' =>
            \/ track' = track /\ life'[id] = "gone"
            \/ \E k \in Calls : DeletePending(k, id) /\ track'[k].tasks[id] = "evicted"]_vars

\* C29 witness: the publish to c1's room got 410 for c1, deleted its item
\* and has responded; c1 has no item.
C29_Witness ==
    /\ track[1].pc = "done" /\ track[1].broadcast = "done"
    /\ track[1].report = [attempted |-> 1, delivered |-> 0, evicted |-> 1]
    /\ life["c1"] = "gone" /\ "c1" \in joinedEver
    /\ "c1" \notin DOMAIN table
\* The request body has no lat or no long (no body at all included).
LacksLatOrLong(body) ==
    \/ body.kind = "null"
    \/ body.kind = "json" /\ ("lat" \notin DOMAIN body.obj \/ "long" \notin DOMAIN body.obj)

\* C30: a request without device code or SIM number in the path, without
\* lat or long, or for a device code that has no Device row, is answered
\* 400 or 404 in one step that stores no tracking row, never enters the
\* query and leaves table and inboxes alone; a valid request without
\* WEBSOCKET_ENDPOINT stores its row and is answered 200, again without
\* query or post.  No invocation that ended this way has a payload in
\* any inbox or a post in its report.
C30_RejectedOrUnconfiguredDoesNotBroadcast ==
    /\ [][\A k \in Calls, code \in Devices \cup {UnknownDevice, Undefined},
             iotSimNumber \in Sims \cup {Undefined}, body \in TrackBodies, endpoint \in BOOLEAN :
            (body.kind # "garbage" /\ TrackDevice(k, code, iotSimNumber, body, "none", endpoint, FALSE)) =>
               IF code = Undefined \/ iotSimNumber = Undefined \/ LacksLatOrLong(body)
                     \/ code \notin Devices
               THEN /\ tracking' = tracking /\ table' = table /\ inbox' = inbox
                    /\ track'[k].pc = "done" /\ track'[k].broadcast = "unreached"
                    /\ track'[k].statusCode =
                          IF code = Undefined \/ iotSimNumber = Undefined \/ LacksLatOrLong(body)
                          THEN 400 ELSE 404
               ELSE IF ~endpoint
               THEN /\ tracking' = tracking \cup {[call |-> k, deviceCode |-> code, trackedAt |-> now]}
                    /\ tracking' # tracking
                    /\ table' = table /\ inbox' = inbox
                    /\ track'[k].pc = "done" /\ track'[k].broadcast = "unconfigured"
                    /\ track'[k].statusCode = 200
               ELSE track'[k].pc = "query"]_vars
    /\ [](\A k \in Calls :
            (track[k].pc = "done" /\ track[k].broadcast \in {"unreached", "unconfigured"}) =>
               /\ PayloadCount(k) = 0
               /\ track[k].report = ZeroReport
               /\ track[k].broadcast = "unreached" => Persisted(k) = {}
               /\ track[k].broadcast = "unconfigured" => Persisted(k) # {})
    /\ [][\A k \in Calls : track'[k].pc \in {"query", "push"} => track[k].pc \in {"idle", "query", "push"}]_vars

\* C30 witness: a fix for a device code without a Device row was answered
\* 404 while both connections were joined to rooms: no row, no payload.
C30_Witness ==
    /\ track[1].pc = "done" /\ track[1].statusCode = 404
    /\ track[1].broadcast = "unreached"
    /\ tracking = {}
    /\ \A id \in ConnIds : life[id] \in Devices /\ inbox[id] = <<>>
====
